---- MODULE Spec2Model ----
(***************************************************************************)
(* Pochatox/Core: the token codec (app/tokens), the registration saga and  *)
(* e-mail verification (app/handlers/auth.py), the credential store        *)
(* (app/db/sqlalchemy/base.py) and the delayed cleanup job (app/main.py).  *)
(*                                                                         *)
(* Time is counted in units of five minutes, the grain of every duration   *)
(* of AuthConfig.  Every step of a handler is one awaited call of the      *)
(* source; steps of different calls interleave freely.                     *)
(***************************************************************************)
EXTENDS Integers, FiniteSets, Sequences, TLC

VARIABLES
    now,          \* the wall clock, datetime.now()
    codec,        \* one encode/decode experiment on the token codec
    database,     \* the class behind the handlers' `db` dependency
    json_encoder, \* TokenConfig.json_encoder, handed to jwt.encode
    session,      \* one session experiment on the credential store
    users,        \* the users table: id -> row
    next_id,      \* how many ids get_id() has handed out, plus one
    mailbox,      \* the messages the mailer has accepted
    jobs,         \* the scheduler's del_inactive_user jobs
    reg,          \* the registration calls
    verify,       \* the verify_email calls
    removed       \* history: the rows deleted, by whom, and their flag

vars == <<now, codec, database, json_encoder, session, users, next_id, mailbox,
          jobs, reg, verify, removed>>

\* The bindings of config.py, which no step changes.
bindings == <<database, json_encoder>>

sysvars == <<bindings, session, users, next_id, mailbox, jobs, reg, verify,
             removed>>

----------------------------------------------------------------------------
(* Bounds of the model.                                                    *)

MaxTime == 2
MaxRegs == 2
MaxVerifies == 2
MaxDeliveries == 2
MaxSessions == 2
MaxRefreshes == 2

(* AuthConfig's durations, in units of five minutes: timedelta(minutes=5), *)
(* timedelta(hours=1), timedelta(weeks=5), timedelta(minutes=5); and       *)
(* UserConfig's change_password_token_exp, timedelta(minutes=5).           *)

registration_token_exp == 1
change_password_token_exp == 1
access_token_exp == 12
refresh_token_exp == 10080
del_inactive_user_after == 1

----------------------------------------------------------------------------
(* Values.                                                                 *)

Usernames == {"alice", "bob"}
Emails == {"a@x.com", "b@x.com"}

get_id(n) == "id" \o ToString(n)

UserIds == {get_id(n) : n \in 1..MaxRegs}

TokenKinds == {"registration", "access", "refresh", "change-password"}

JWT_KEY == "JWT_KEY"
OtherKey == "forged"

----------------------------------------------------------------------------
(* Token payloads and the codec.  The float `exp` of a payload is kept as  *)
(* its whole part `exp` and the flag `frac`, 1 when a fractional part is   *)
(* present: the expiry lies at exp + frac/2.  `sub` is a UUID.             *)

RegistrationTokenPayload(exp, frac, sub) ==
    [exp |-> exp, frac |-> frac, sub |-> sub, type |-> "registration"]

AccessTokenPayload(exp, frac, sub) ==
    [exp |-> exp, frac |-> frac, sub |-> sub, type |-> "access"]

RefreshTokenPayload(exp, frac, sub) ==
    [exp |-> exp, frac |-> frac, sub |-> sub, type |-> "refresh"]

ChangePasswordTokenPayload(exp, frac, sub) ==
    [exp |-> exp, frac |-> frac, sub |-> sub, type |-> "change-password"]

NoPayload == [exp |-> 0, frac |-> 0, sub |-> "", type |-> "none"]

NoToken == [parts |-> 0, claims |-> NoPayload, sig |-> ""]

\* The values of JWTokenConfig.json_encoder: None, as config.TokenConfig
\* leaves it, or a JSONEncoder subclass that writes a UUID as its string.
JSONEncoders == {"None", "JSONEncoder"}

\* json.dumps of the claims: model_dump() leaves `sub` a UUID object, which
\* the default encoder refuses with TypeError.
json_dumps(claims, encoder) ==
    IF encoder = "None" THEN [error |-> "TypeError", claims |-> NoPayload]
    ELSE [error |-> "none", claims |-> claims]

\* jwt.encode: header.claims.signature, signed with the key.
jwt_encode(payload, key, encoder) ==
    LET j == json_dumps(payload, encoder) IN
    IF j.error # "none" THEN [error |-> j.error, token |-> NoToken]
    ELSE [error |-> "none",
          token |-> [parts |-> 3, claims |-> j.claims, sig |-> key]]

\* JWToken.encode: model_dump() of the payload, signed with config.key;
\* any exception becomes EncodeTokenError.
encode(payload, encoder) ==
    LET e == jwt_encode(payload, JWT_KEY, encoder) IN
    IF e.error # "none" THEN [error |-> "EncodeTokenError", token |-> NoToken]
    ELSE e

\* jwt.decode with exp < now for exp <= now.
jwt_decode_late(token, key, t) ==
    IF token.parts # 3 THEN [error |-> "DecodeError", claims |-> NoPayload]
    ELSE IF token.sig # key
         THEN [error |-> "InvalidSignatureError", claims |-> NoPayload]
    ELSE IF token.claims.exp < t
         THEN [error |-> "ExpiredSignatureError", claims |-> NoPayload]
    ELSE [error |-> "none", claims |-> token.claims]

\* jwt.decode: structure, then signature, then the exp claim: int(exp) <=
\* now is expired; the claims on success.
jwt_decode(token, key, t) ==
    IF token.parts # 3 THEN [error |-> "DecodeError", claims |-> NoPayload]
    ELSE IF token.sig # key
         THEN [error |-> "InvalidSignatureError", claims |-> NoPayload]
    ELSE IF token.claims.exp <= t
         THEN [error |-> "ExpiredSignatureError", claims |-> NoPayload]
    ELSE [error |-> "none", claims |-> token.claims]

\* payload_type(**claims) with every field taken from the claims; the
\* validation ignores the Literal type field.
payload_type_any(kind, claims) == TRUE

\* payload_type(**claims): pydantic accepts the claims when the Literal
\* field `type` is the payload class's own (and reads `sub` back into a
\* UUID).
payload_type(kind, claims) == claims.type = kind

\* verify_registration_token taking the claims of any token.
verify_registration_token_trusting(token, t) ==
    [error |-> "none", payload |-> token.claims]

\* JWToken.decode reporting a kind mismatch under a name of its own.
decode_naming_kind(token, kind, t) ==
    LET d == jwt_decode(token, JWT_KEY, t) IN
    IF d.error = "ExpiredSignatureError"
    THEN [error |-> "TokenExpiredError", payload |-> NoPayload]
    ELSE IF d.error # "none"
         THEN [error |-> "DecodeTokenError", payload |-> NoPayload]
    ELSE IF ~payload_type(kind, d.claims)
         THEN [error |-> "ValidationError", payload |-> NoPayload]
    ELSE [error |-> "none", payload |-> d.claims]

\* JWToken.decode(token, config, payload_type) at time t.
decode(token, kind, t) ==
    LET d == jwt_decode(token, JWT_KEY, t) IN
    IF d.error = "ExpiredSignatureError"
    THEN [error |-> "TokenExpiredError", payload |-> NoPayload]
    ELSE IF d.error # "none"
         THEN [error |-> "DecodeTokenError", payload |-> NoPayload]
    ELSE IF ~payload_type(kind, d.claims)
         THEN [error |-> "DecodeTokenError", payload |-> NoPayload]
    ELSE [error |-> "none", payload |-> d.claims]

\* create_registration_token adding one unit to the expiry.
create_registration_token_longer(exp, sub, t, f) ==
    RegistrationTokenPayload(t + exp + 1, 0, sub)

\* The token factories, called when the clock reads t + f/2.  Only
\* create_registration_token truncates the expiry with int().
create_registration_token(exp, sub, t, f) ==
    RegistrationTokenPayload(t + exp, 0, sub)
create_access_token(exp, sub, t, f) == AccessTokenPayload(t + exp, f, sub)
create_refresh_token(exp, sub, t, f) == RefreshTokenPayload(t + exp, f, sub)
create_change_password_token(exp, sub, t, f) ==
    ChangePasswordTokenPayload(t + exp, f, sub)

verify_registration_token(token, t) == decode(token, "registration", t)

verify_change_password_token(token, t) == decode(token, "change-password", t)

\* AuthController.refresh issuing only the access token.
refresh_tokens_access_only(sub, t, f) ==
    {create_access_token(access_token_exp, sub, t, f)}

\* AuthController.refresh: the payloads of the two tokens it creates.
refresh_tokens(sub, t, f) ==
    {create_access_token(access_token_exp, sub, t, f),
     create_refresh_token(access_token_exp, sub, t, f)}

\* AuthController.refresh with `except DecodeTokenError` ahead of
\* `except TokenExpiredError`.
refresh_merging(present, header, encoder, t, f) ==
    LET d == decode(header, "refresh", t)
        e == {encode(p, encoder) : p \in refresh_tokens(d.payload.sub, t, f)}
    IN IF ~present
       THEN [response |-> "RefreshTokenHeaderMissing", issued |-> {}]
       ELSE IF d.error # "none"
            THEN [response |-> "RefreshTokenInvalid", issued |-> {}]
       ELSE IF \E x \in e : x.error # "none"
            THEN [response |-> "EncodeTokenError", issued |-> {}]
       ELSE [response |-> "ok", issued |-> {x.token : x \in e}]

\* AuthController.refresh on the Refresh-Token header (absent, or the
\* token it holds) when the clock reads t + f/2.
refresh(present, header, encoder, t, f) ==
    LET d == decode(header, "refresh", t)
        e == {encode(p, encoder) : p \in refresh_tokens(d.payload.sub, t, f)}
    IN IF ~present
       THEN [response |-> "RefreshTokenHeaderMissing", issued |-> {}]
       ELSE IF d.error = "TokenExpiredError"
            THEN [response |-> "RefreshTokenExpired", issued |-> {}]
       ELSE IF d.error # "none"
            THEN [response |-> "RefreshTokenInvalid", issued |-> {}]
       ELSE IF \E x \in e : x.error # "none"
            THEN [response |-> "EncodeTokenError", issued |-> {}]
       ELSE [response |-> "ok", issued |-> {x.token : x \in e}]

----------------------------------------------------------------------------
(* The codec on its own: a payload of any kind is encoded, possibly        *)
(* tampered with, and decoded as any kind at any time, or presented to     *)
(* AuthController.refresh.                                                 *)

CodecSubjects == Usernames \cup {get_id(1)}

CodecPayloads ==
    [exp : 0..MaxTime, frac : {0, 1}, sub : CodecSubjects, type : TokenKinds]

CodecIdle ==
    [stage |-> "idle", payload |-> NoPayload, token |-> NoToken,
     expected |-> "none", at |-> 0,
     result |-> [error |-> "none", payload |-> NoPayload],
     response |-> "none", issued |-> {}, present |-> FALSE,
     refreshes |-> 0, exchanges |-> 0]

\* The clock advances up to MaxTime, and beyond it for as long as a
\* scheduled job has not come due.
Tick ==
    /\ \/ now < MaxTime
       \/ \E id \in DOMAIN jobs : jobs[id].runs = 0 /\ jobs[id].eta > now
    /\ now' = now + 1
    /\ UNCHANGED <<codec, sysvars>>

CodecEncode ==
    /\ codec.stage = "payload"
    /\ LET e == encode(codec.payload, json_encoder)
       IN codec' = [codec EXCEPT
                      !.stage = IF e.error = "none"
                                THEN "token" ELSE e.error,
                      !.token = e.token]
    /\ UNCHANGED <<now, sysvars>>

CodecTamper ==
    /\ codec.stage = "token"
    /\ \E bad \in {[codec.token EXCEPT !.sig = OtherKey],
                   [codec.token EXCEPT !.parts = 2]} :
          codec' = [codec EXCEPT !.stage = "tampered", !.token = bad]
    /\ UNCHANGED <<now, sysvars>>

CodecDecode ==
    /\ codec.stage \in {"token", "tampered"}
    /\ \E kind \in TokenKinds :
          codec' = [codec EXCEPT
                      !.stage = IF codec.stage = "token"
                                THEN "decoded" ELSE "rejected",
                      !.expected = kind,
                      !.at = now,
                      !.result = decode(codec.token, kind, now)]
    /\ UNCHANGED <<now, sysvars>>

\* AuthController.refresh turning down a token it has exchanged before.
CodecRefreshOnce ==
    /\ codec.stage \in {"token", "tampered", "refreshed"}
    /\ codec.refreshes < MaxRefreshes
    /\ \E present \in BOOLEAN, f \in {0, 1} :
          LET r == IF codec.exchanges > 0
                   THEN [response |-> "RefreshTokenInvalid", issued |-> {}]
                   ELSE refresh(present, codec.token, json_encoder, now, f)
          IN codec' = [codec EXCEPT
                         !.stage = "refreshed",
                         !.expected = "refresh",
                         !.at = now,
                         !.result = decode(codec.token, "refresh", now),
                         !.response = r.response,
                         !.issued = r.issued,
                         !.present = present,
                         !.refreshes = @ + 1,
                         !.exchanges = IF r.response = "ok"
                                       THEN @ + 1 ELSE @]
    /\ UNCHANGED <<now, sysvars>>

\* AuthController.refresh on the token of the experiment, presented for
\* the first time or again; `exchanges` counts the calls that returned a
\* new pair for it.
CodecRefresh ==
    /\ codec.stage \in {"token", "tampered", "refreshed"}
    /\ codec.refreshes < MaxRefreshes
    /\ \E present \in BOOLEAN, f \in {0, 1} :
          LET r == refresh(present, codec.token, json_encoder, now, f)
          IN codec' = [codec EXCEPT
                         !.stage = "refreshed",
                         !.expected = "refresh",
                         !.at = now,
                         !.result = decode(codec.token, "refresh", now),
                         !.response = r.response,
                         !.issued = r.issued,
                         !.present = present,
                         !.refreshes = @ + 1,
                         !.exchanges = IF r.response = "ok"
                                       THEN @ + 1 ELSE @]
    /\ UNCHANGED <<now, sysvars>>

----------------------------------------------------------------------------
(* The credential store.  A row is [username, email, is_active, password]; *)
(* every operation below is one session (one transaction) of the source,   *)
(* except activate_user, whose SELECT and whose UPDATE at commit are two   *)
(* steps.                                                                  *)

NoId == ""

EmptyTable == [i \in {} |-> 0]

\* pwd_context.hash, the setter of User.password
pwd_context_hash(password) == "$2b$" \o password

Row(username, email, is_active, password) ==
    [username |-> username, email |-> email, is_active |-> is_active,
     password |-> pwd_context_hash(password)]

\* The class config.DataBase names, and the abstract class the handlers'
\* `db` dependency is declared as.
DataBases == {"AsyncSQLAlchemyDB", "BaseAsyncDB"}

\* The parameters without a default of create_user, per class.
create_user_required(db) ==
    IF db = "AsyncSQLAlchemyDB"
    THEN {"username", "password", "email", "is_active",
          "first_name", "last_name", "avatar"}
    ELSE {"username", "password", "email", "is_active"}

\* The keyword arguments registration passes to create_user.
registration_create_user_kwargs ==
    {"username", "password", "email", "is_active"}

\* is_user_username_email_unique: the CASE column of every row that
\* matches on e-mail or on username (the e-mail branch comes first).
non_unique_fields(table, username, email) ==
    {IF table[i].email = email THEN "email" ELSE "username" :
        i \in {j \in DOMAIN table :
                  table[j].email = email \/ table[j].username = username}}

\* _raise_user_unique_error looking for 'email' first.
raise_user_unique_error_email_first(fields) ==
    IF "email" \in fields THEN "UniqueEmailError"
    ELSE IF "username" \in fields THEN "UniqueUsernameError"
    ELSE "ValueError"

\* _raise_user_unique_error on a sequence of field names.
raise_user_unique_error(fields) ==
    IF "username" \in fields THEN "UniqueUsernameError"
    ELSE IF "email" \in fields THEN "UniqueEmailError"
    ELSE "ValueError"

is_user_username_email_unique(table, username, email) ==
    LET fields == non_unique_fields(table, username, email) IN
    IF fields = {} THEN "True" ELSE raise_user_unique_error(fields)

\* A users table without unique constraints.
violated_constraints_dropped(table, username, email) == {}

\* The unique constraints an INSERT of (username, email) violates.
violated_constraints(table, username, email) ==
    {"username" : i \in {j \in DOMAIN table : table[j].username = username}}
    \cup {"email" : i \in {j \in DOMAIN table : table[j].email = email}}

\* _raise_user_unique_error on an IntegrityError with this constraint.
raise_integrity_error(constraint) ==
    IF constraint = "username" THEN "UniqueUsernameError"
    ELSE IF constraint = "email" THEN "UniqueEmailError"
    ELSE "IntegrityError"

\* del_user without its DELETE.
del_user_skipped(table, id) == table

\* del_user: DELETE ... WHERE id = :id, committed.
del_user(table, id) == [i \in DOMAIN table \ {id} |-> table[i]]

\* is_user_active answering True for every id.
is_user_active_assumed(table, id) == "True"

\* is_user_active: the flag, or ValueError when the row is missing.
is_user_active(table, id) ==
    IF id \in DOMAIN table
    THEN (IF table[id].is_active THEN "True" ELSE "False")
    ELSE "ValueError"

\* scalar_one_or_none of SELECT ... WHERE username = :username.
user_by_username(table, username) ==
    IF \E i \in DOMAIN table : table[i].username = username
    THEN CHOOSE i \in DOMAIN table : table[i].username = username
    ELSE NoId

\* User.check_password: pwd_context.verify(password, self._password)
check_password(row, password) == row.password = pwd_context_hash(password)

\* verify_username_password without `User.is_active` in its WHERE clause.
verify_username_password_of_any(table, username, password) ==
    LET id == user_by_username(table, username)
    IN IF id # NoId /\ check_password(table[id], password)
       THEN [error |-> "none", id |-> id]
       ELSE [error |-> "InvalidCredentialsError", id |-> NoId]

\* verify_username_password: the active row of the username, then its
\* password.
verify_username_password(table, username, password) ==
    LET active == [i \in {j \in DOMAIN table : table[j].is_active}
                     |-> table[i]]
        id == user_by_username(active, username)
    IN IF id # NoId /\ check_password(table[id], password)
       THEN [error |-> "none", id |-> id]
       ELSE [error |-> "InvalidCredentialsError", id |-> NoId]

\* get_user and get_user_email: the row of the id, or UserNotFoundError.
get_user(table, id) ==
    IF id \in DOMAIN table THEN "found" ELSE "UserNotFoundError"

get_user_by_username(table, username) ==
    IF user_by_username(table, username) # NoId
    THEN "found" ELSE "UserNotFoundError"

get_user_email(table, id) ==
    IF id \in DOMAIN table THEN table[id].email ELSE "UserNotFoundError"

\* activate_user up to its return statement: what the SELECT finds.
activate_user_select(table, username) ==
    LET id == user_by_username(table, username) IN
    IF id = NoId THEN "ValueError"
    ELSE IF table[id].is_active THEN "ActivateUserError"
    ELSE "selected"

----------------------------------------------------------------------------
(* The sessions of AsyncSQLAlchemyDB.  A session works on `pending`, the   *)
(* table as its transaction sees it; the store holds what was committed.   *)

\* The unique constraints of User that a table violates.
unique_violations(table) ==
    {"username" : i \in {j \in DOMAIN table :
        \E k \in DOMAIN table \ {j} : table[k].username = table[j].username}}
    \cup {"email" : i \in {j \in DOMAIN table :
        \E k \in DOMAIN table \ {j} : table[k].email = table[j].email}}

\* A session that keeps its pending changes when it fails.
rollback_kept(table, pending) == pending

\* session.rollback(), and the close() of a session that did not commit.
rollback(table, pending) == table

\* _get_write_session around a body that left `pending` or raised: commit
\* on success; the flush of the commit fails on a violated constraint.
get_write_session(table, body) ==
    IF body.error # "none"
    THEN [error |-> body.error, table |-> rollback(table, body.pending),
          pending |-> body.pending]
    ELSE IF unique_violations(body.pending) # {}
         THEN [error |-> "DatabaseError",
               table |-> rollback(table, body.pending),
               pending |-> body.pending]
    ELSE [error |-> "none", table |-> body.pending, pending |-> body.pending]

\* create_user with every argument given; k names the constraint the
\* store reports when it rejects the row.
write_create_user(table, id, username, password, email, is_active, k) ==
    LET r == get_write_session(table,
                [error |-> "none",
                 pending |-> table @@
                     (id :> Row(username, email, is_active, password))])
    IN IF r.error = "DatabaseError"
       THEN [r EXCEPT !.error = raise_integrity_error(k)]
       ELSE r

write_del_user(table, id) ==
    get_write_session(table, [error |-> "none", pending |-> del_user(table, id)])

\* change_user_password setting the password of every row.
write_change_user_password_of_all(table, id, new_password) ==
    get_write_session(table,
        IF id \in DOMAIN table
        THEN [error |-> "none",
              pending |-> [i \in DOMAIN table |->
                             [table[i] EXCEPT
                                !.password = pwd_context_hash(new_password)]]]
        ELSE [error |-> "UserNotFoundError", pending |-> table])

write_change_user_password(table, id, new_password) ==
    get_write_session(table,
        IF id \in DOMAIN table
        THEN [error |-> "none",
              pending |-> [table EXCEPT
                             ![id].password = pwd_context_hash(new_password)]]
        ELSE [error |-> "UserNotFoundError", pending |-> table])

write_activate_user(table, username) ==
    LET s == activate_user_select(table, username)
        id == user_by_username(table, username)
    IN get_write_session(table,
           IF s = "selected"
           THEN [error |-> "none",
                 pending |-> [table EXCEPT ![id].is_active = TRUE]]
           ELSE [error |-> s, pending |-> table])

\* What code handed a read-only session can call on it.
ReadScripts ==
    {<<"select">>, <<"add">>, <<"add", "flush">>, <<"add", "commit">>,
     <<"delete">>, <<"delete", "flush">>, <<"delete", "commit">>}

IsMutation(script) ==
    \E i \in DOMAIN script : script[i] \in {"add", "delete"}

\* _get_read_session around the calls of `script`, from call i on: the
\* session's flush attribute raises DatabaseWriteError; add and
\* execute(delete) work on the transaction; commit goes to the underlying
\* session, whose own flush fails on a violated constraint; leaving the
\* block closes the session without a commit.
RECURSIVE get_read_session(_, _, _, _, _, _)
get_read_session(table, pending, script, i, id, row) ==
    IF i > Len(script)
    THEN [error |-> "none", table |-> table, pending |-> pending]
    ELSE IF script[i] = "flush"
         THEN [error |-> "DatabaseWriteError", table |-> table,
               pending |-> pending]
    ELSE IF script[i] = "commit" /\ unique_violations(pending) # {}
         THEN [error |-> "IntegrityError", table |-> table,
               pending |-> pending]
    ELSE IF script[i] = "commit"
         THEN get_read_session(pending, pending, script, i + 1, id, row)
    ELSE IF script[i] = "add"
         THEN get_read_session(table, pending @@ (id :> row), script, i + 1,
                               id, row)
    ELSE IF script[i] = "delete"
         THEN get_read_session(table, del_user(pending, id), script, i + 1,
                               id, row)
    ELSE get_read_session(table, pending, script, i + 1, id, row)

Passwords == {"pw1", "pw2"}

\* The tables the session experiments start from.
StoreTables ==
    {EmptyTable,
     get_id(1) :> Row("alice", "a@x.com", FALSE, "pw1"),
     get_id(1) :> Row("alice", "a@x.com", TRUE, "pw1"),
     (get_id(1) :> Row("alice", "a@x.com", TRUE, "pw1"))
        @@ (get_id(2) :> Row("bob", "b@x.com", FALSE, "pw1"))}

\* The ids of the active rows.
ActiveIds(table) == {i \in DOMAIN table : table[i].is_active}

\* The last call on the store or on a handler, and two histories: `tokens`,
\* every token issued so far, and `active`, every id seen active before
\* the last call.
SessionIdle ==
    [stage |-> "idle", n |-> 0, mode |-> "none", op |-> "none",
     mutation |-> FALSE, before |-> EmptyTable, pending |-> EmptyTable,
     error |-> "none", args |-> <<>>, issued |-> {}, at |-> 0,
     tokens |-> {}, active |-> {}]

Closed(mode, op, mutation, r) ==
    [stage |-> "closed", n |-> session.n + 1, mode |-> mode, op |-> op,
     mutation |-> mutation, before |-> users, pending |-> r.pending,
     error |-> r.error, args |-> <<>>, issued |-> {}, at |-> now,
     tokens |-> session.tokens,
     active |-> session.active \cup ActiveIds(users)]

\* A read-mode operation that deletes a row and commits.
read_script_deleting == <<"delete", "commit">>

\* The session calls the read-mode operations make: session.get or
\* session.execute(select(...)), nothing else.
read_script == <<"select">>

\* A read-mode operation `op` answering `result`, run in a read session.
StoreQuery(op, result, args, issued) ==
    /\ session.n < MaxSessions
    /\ LET r == get_read_session(users, users, read_script, 1, get_id(1),
                                 Row("carol", "c@x.com", FALSE, "pw1"))
       IN /\ users' = r.table
          /\ session' =
                [Closed("read", op, FALSE,
                        [error |-> result, pending |-> r.pending])
                   EXCEPT !.args = args, !.issued = issued,
                          !.tokens = @ \cup issued]
    /\ UNCHANGED next_id

StoreFrame == UNCHANGED <<now, codec, bindings, mailbox, jobs, reg, verify,
                          removed>>

StoreGetUser(id) ==
    /\ StoreQuery("get_user", get_user(users, id), <<id>>, {})
    /\ StoreFrame

StoreGetUserByUsername(username) ==
    /\ StoreQuery("get_user_by_username",
                  get_user_by_username(users, username), <<username>>, {})
    /\ StoreFrame

StoreGetUserEmail(id) ==
    /\ StoreQuery("get_user_email", get_user_email(users, id), <<id>>, {})
    /\ StoreFrame

StoreIsUserActive(id) ==
    /\ StoreQuery("is_user_active", is_user_active(users, id), <<id>>, {})
    /\ StoreFrame

StoreCreateUser(username, email, is_active) ==
    /\ session.n < MaxSessions
    /\ \E k \in violated_constraints(users, username, email) \cup {"none"} :
          /\ k = "none" <=> violated_constraints(users, username, email) = {}
          /\ LET r == write_create_user(users, get_id(next_id), username,
                                        "pw1", email, is_active, k)
             IN /\ users' = r.table
                /\ session' = Closed("write", "create_user", TRUE, r)
                /\ next_id' = IF r.error = "none" THEN next_id + 1
                              ELSE next_id
    /\ StoreFrame

StoreDelUser(id) ==
    /\ session.n < MaxSessions
    /\ LET r == write_del_user(users, id)
       IN /\ users' = r.table
          /\ session' = Closed("write", "del_user", TRUE, r)
    /\ UNCHANGED next_id
    /\ StoreFrame

StoreChangeUserPassword(id, new_password) ==
    /\ session.n < MaxSessions
    /\ LET r == write_change_user_password(users, id, new_password)
       IN /\ users' = r.table
          /\ session' = [Closed("write", "change_user_password", TRUE, r)
                           EXCEPT !.args = <<id, new_password>>]
    /\ UNCHANGED next_id
    /\ StoreFrame

StoreActivateUser(username) ==
    /\ session.n < MaxSessions
    /\ LET r == write_activate_user(users, username)
       IN /\ users' = r.table
          /\ session' = Closed("write", "activate_user", TRUE, r)
    /\ UNCHANGED next_id
    /\ StoreFrame

StoreRead(script, id) ==
    /\ session.n < MaxSessions
    /\ LET r == get_read_session(users, users, script, 1, id,
                                 Row("carol", "c@x.com", FALSE, "pw1"))
       IN /\ users' = r.table
          /\ session' = Closed("read", "script", IsMutation(script), r)
    /\ UNCHANGED next_id
    /\ StoreFrame

\* db.is_user_username_email_unique(username, email)
StoreIsUnique(username, email) ==
    /\ StoreQuery("is_user_username_email_unique",
                  is_user_username_email_unique(users, username, email),
                  <<username, email>>, {})
    /\ StoreFrame

\* AuthController.authentication: the payloads of the two tokens it
\* creates.
authentication_tokens(sub, t, f) ==
    {create_access_token(access_token_exp, sub, t, f),
     create_refresh_token(access_token_exp, sub, t, f)}

\* AuthController.authentication on an AuthDTO when the clock reads
\* t + f/2.
authentication(table, username, password, encoder, t, f) ==
    LET v == verify_username_password(table, username, password)
        e == {encode(p, encoder) : p \in authentication_tokens(v.id, t, f)}
    IN IF v.error # "none"
       THEN [response |-> "InvalidCredentials", issued |-> {}]
       ELSE IF \E x \in e : x.error # "none"
            THEN [response |-> "EncodeTokenError", issued |-> {}]
       ELSE [response |-> "ok", issued |-> {x.token : x \in e}]

StoreAuthentication(username, password) ==
    /\ \E f \in {0, 1} :
          LET a == authentication(users, username, password, json_encoder,
                                  now, f)
          IN StoreQuery("authentication", a.response,
                        <<username, password>>, a.issued)
    /\ StoreFrame

\* The tokens signed with config.key that carry these payloads: none
\* when encode cannot write them.
Signed(payloads) ==
    {e.token : e \in {x \in {encode(p, json_encoder) : p \in payloads} :
                         x.error = "none"}}

\* A token, with its signature forged, and cut short.
Variants(token) ==
    {token, [token EXCEPT !.sig = OtherKey], [token EXCEPT !.parts = 2]}

\* AuthController.refresh, given a token issued before, as it was or
\* altered, or no header.
StoreRefresh(present) ==
    /\ session.n < MaxSessions
    /\ \E f \in {0, 1} :
       \E header \in {NoToken} \cup UNION {Variants(k) : k \in session.tokens} :
          LET r == refresh(present, header, json_encoder, now, f)
          IN session' =
                [Closed("handler", "refresh", FALSE,
                        [error |-> r.response, pending |-> users])
                   EXCEPT !.args = <<present, header>>,
                          !.issued = r.issued,
                          !.tokens = @ \cup r.issued]
    /\ UNCHANGED <<users, next_id>>
    /\ StoreFrame

\* verify_email: the payloads of the two tokens it creates.
verify_email_tokens(sub, t, f) ==
    {create_access_token(access_token_exp, sub, t, f),
     create_refresh_token(access_token_exp, sub, t, f)}

\* The registration tokens a client can hold: issued for a username at
\* some time up to MaxTime - 1, as they were or altered.
RegistrationTokenInputs ==
    UNION {Variants(k) : k \in Signed(
        {create_registration_token(registration_token_exp, u, t, 0) :
            u \in Usernames, t \in 0..(MaxTime - 1)})}

\* AuthController.verify_email run on its own, when the clock reads
\* t + f/2.
verify_email(table, token, encoder, t, f) ==
    LET d == verify_registration_token(token, t)
        w == write_activate_user(table, d.payload.sub)
        id == user_by_username(table, d.payload.sub)
        e == {encode(p, encoder) : p \in verify_email_tokens(id, t, f)}
    IN IF d.error # "none"
       THEN [response |-> "RegistrationTokenInvalid", issued |-> {},
             table |-> table]
       ELSE IF w.error = "ActivateUserError"
            THEN [response |-> "UserIsActive", issued |-> {},
                  table |-> w.table]
       ELSE IF w.error # "none"
            THEN [response |-> w.error, issued |-> {}, table |-> w.table]
       ELSE IF \E x \in e : x.error # "none"
            THEN [response |-> "EncodeTokenError", issued |-> {},
                  table |-> w.table]
       ELSE [response |-> "ok", issued |-> {x.token : x \in e},
             table |-> w.table]

StoreVerifyEmail ==
    /\ session.n < MaxSessions
    /\ \E token \in RegistrationTokenInputs :
       LET r == verify_email(users, token, json_encoder, now, 0)
       IN /\ users' = r.table
          /\ session' =
                [Closed("handler", "verify_email", TRUE,
                        [error |-> r.response, pending |-> r.table])
                   EXCEPT !.args = <<token>>,
                          !.issued = r.issued,
                          !.tokens = @ \cup r.issued]
    /\ UNCHANGED next_id
    /\ StoreFrame

\* The tokens a client can put in the path of change-password: a
\* change-password token or an access token issued for an id at some time
\* up to MaxTime - 1, as it was or altered.
ChangePasswordTokenInputs ==
    UNION {Variants(k) : k \in Signed(
        {create_change_password_token(change_password_token_exp, u, t, f) :
            u \in UserIds, t \in 0..(MaxTime - 1), f \in {0, 1}}
        \cup {create_access_token(access_token_exp, u, 0, 0) :
                 u \in UserIds})}

\* UserController.change_password skipping the comparison of subjects.
change_password_unchecked(table, sub, token, new_password, t) ==
    LET d == verify_change_password_token(token, t)
        w == write_change_user_password(table, sub, new_password)
    IN IF d.error # "none"
       THEN [response |-> "ChangePasswordTokenInvalid", table |-> table]
       ELSE [response |-> IF w.error = "none" THEN "ok" ELSE w.error,
             table |-> w.table]

\* UserController.change_password for the caller auth_client.sub = sub.
change_password(table, sub, token, new_password, t) ==
    LET d == verify_change_password_token(token, t)
        w == write_change_user_password(table, sub, new_password)
    IN IF d.error # "none"
       THEN [response |-> "ChangePasswordTokenInvalid", table |-> table]
       ELSE IF sub # d.payload.sub
            THEN [response |-> "TokensSubjectNotEqual", table |-> table]
       ELSE [response |-> IF w.error = "none" THEN "ok" ELSE w.error,
             table |-> w.table]

StoreChangePassword(sub, new_password) ==
    /\ session.n < MaxSessions
    /\ \E token \in ChangePasswordTokenInputs :
       LET r == change_password(users, sub, token, new_password, now)
       IN /\ users' = r.table
          /\ session' =
                [Closed("handler", "change_password", TRUE,
                        [error |-> r.response, pending |-> r.table])
                   EXCEPT !.args = <<sub, token, new_password>>]
    /\ UNCHANGED next_id
    /\ StoreFrame

----------------------------------------------------------------------------
(* The calls.                                                              *)

RegCalls == 1..MaxRegs
VerifyCalls == 1..MaxVerifies

\* The (username, email) pairs of the RegistrationDTOs: the first call's,
\* and then the same pair again, the same username with another e-mail,
\* or another username with the same e-mail.
RegInputs(c) ==
    IF c = 1 THEN {<<"alice", "a@x.com">>}
    ELSE {<<"alice", "a@x.com">>, <<"alice", "b@x.com">>,
          <<"bob", "a@x.com">>}

RegIdle ==
    [pc |-> "idle", username |-> "", email |-> "", token |-> NoToken,
     notified |-> "none", uid |-> NoId, scheduled |-> "none",
     outcome |-> "none", concurrent |-> {}]

VerifyIdle ==
    [pc |-> "idle", token |-> NoToken, uid |-> NoId, email |-> "",
     outcome |-> "none", tokens |-> {}, after |-> {}]


Job(eta) == [eta |-> eta, pc |-> "scheduled", runs |-> 0, last |-> "none"]

Init ==
    /\ now = 0
    /\ codec = CodecIdle
    /\ database \in DataBases
    /\ json_encoder \in JSONEncoders
    /\ session = SessionIdle
    /\ users = EmptyTable
    /\ next_id = 1
    /\ mailbox = {}
    /\ jobs = EmptyTable
    /\ reg = [c \in RegCalls |-> RegIdle]
    /\ verify = [c \in VerifyCalls |-> VerifyIdle]
    /\ removed = {}

InitCodec ==
    /\ now = 0
    /\ codec \in {[CodecIdle EXCEPT !.stage = "payload", !.payload = p] :
                     p \in CodecPayloads}
    /\ database = "AsyncSQLAlchemyDB"
    /\ json_encoder \in JSONEncoders
    /\ session = SessionIdle
    /\ users = EmptyTable
    /\ next_id = 1
    /\ mailbox = {}
    /\ jobs = EmptyTable
    /\ reg = [c \in RegCalls |-> RegIdle]
    /\ verify = [c \in VerifyCalls |-> VerifyIdle]
    /\ removed = {}

----------------------------------------------------------------------------
(* AuthController.registration, one action per awaited call.               *)

\* registration going on to the notification whatever the uniqueness
\* check answered.
registration_after_unique_ignored(result) ==
    [pc |-> "notify", outcome |-> "none"]

\* The response of registration to the result of the uniqueness check.
registration_after_unique(result) ==
    IF result = "True" THEN [pc |-> "notify", outcome |-> "none"]
    ELSE IF result = "UniqueUsernameError"
         THEN [pc |-> "done", outcome |-> "UsernameNotUnique"]
    ELSE IF result = "UniqueEmailError"
         THEN [pc |-> "done", outcome |-> "EmailNotUnique"]
    ELSE [pc |-> "done", outcome |-> result]

\* registration going on to create the user whenever the mailer raised
\* NonExistentEmail.
registration_after_send_ignored(result) ==
    IF result = "MailerError"
    THEN [pc |-> "done", outcome |-> "MailerError"]
    ELSE [pc |-> "create", outcome |-> "none"]

\* The response of registration to the result of mailer.send.
registration_after_send(result) ==
    IF result = "NonExistentEmail"
    THEN [pc |-> "done", outcome |-> "EmailNonExists"]
    ELSE IF result = "MailerError"
         THEN [pc |-> "done", outcome |-> "MailerError"]
    ELSE [pc |-> "create", outcome |-> "none"]

\* The except branch of registration without its del_user.
registration_compensate_skipped(table, id) == table

\* The except branch of registration: db.del_user(registration_user.id).
registration_compensate(table, id) == del_user(table, id)

Removal(table, id, by) ==
    IF id \in DOMAIN table
    THEN {[id |-> id, by |-> by, is_active |-> table[id].is_active]}
    ELSE {}

\* db.is_user_username_email_unique(username, email)
RegUnique(c, username, email) ==
    /\ reg[c].pc = "idle"
    /\ \A d \in RegCalls : d < c => reg[d].pc # "idle"
    /\ LET r == registration_after_unique(
                   is_user_username_email_unique(users, username, email))
       IN reg' = [reg EXCEPT ![c] =
                    [@ EXCEPT !.pc = r.pc, !.outcome = r.outcome,
                              !.username = username, !.email = email,
                              !.concurrent =
                                  {d \in RegCalls :
                                      reg[d].pc \notin {"idle", "done"}}]]
    /\ UNCHANGED <<now, codec, bindings, session, users, next_id, mailbox, jobs,
                   verify, removed>>

\* create_registration_token(...).encode(), then mailer.send(...)
RegNotify(c, result) ==
    /\ reg[c].pc = "notify"
    /\ LET e == encode(create_registration_token(
                        registration_token_exp, reg[c].username, now, 0),
                    json_encoder)
           r == registration_after_send(result)
       IN IF e.error # "none"
          THEN /\ reg' = [reg EXCEPT ![c] =
                            [@ EXCEPT !.pc = "done", !.outcome = e.error]]
               /\ UNCHANGED mailbox
          ELSE /\ reg' = [reg EXCEPT ![c] =
                            [@ EXCEPT !.pc = r.pc, !.outcome = r.outcome,
                                      !.token = e.token,
                                      !.notified = result]]
               /\ mailbox' = IF result = "sent"
                             THEN mailbox \cup
                                    {[to |-> reg[c].email, token |-> e.token]}
                             ELSE mailbox
    /\ UNCHANGED <<now, codec, bindings, session, users, next_id, jobs, verify,
                   removed>>

\* registration creating the user with is_active=True.
registration_is_active_set == TRUE

\* The is_active argument registration passes to create_user.
registration_is_active == FALSE

\* db.create_user(username, password, email, is_active=False)
RegCreate(c) ==
    /\ reg[c].pc = "create"
    /\ IF create_user_required(database) \ registration_create_user_kwargs
              # {}
       THEN /\ reg' = [reg EXCEPT ![c] =
                         [@ EXCEPT !.pc = "done", !.outcome = "TypeError"]]
            /\ UNCHANGED <<users, next_id>>
       ELSE LET v == violated_constraints(users, reg[c].username,
                                          reg[c].email)
            IN IF v = {}
               THEN /\ users' = users @@
                           (get_id(next_id) :>
                               Row(reg[c].username, reg[c].email,
                                   registration_is_active, "pw1"))
                    /\ next_id' = next_id + 1
                    /\ reg' = [reg EXCEPT ![c] =
                                 [@ EXCEPT !.pc = "schedule",
                                           !.uid = get_id(next_id)]]
               ELSE /\ \E k \in v :
                          reg' = [reg EXCEPT ![c] =
                                    [@ EXCEPT
                                       !.pc = "done",
                                       !.outcome = raise_integrity_error(k)]]
                    /\ UNCHANGED <<users, next_id>>
    /\ UNCHANGED <<now, codec, bindings, session, mailbox, jobs, verify, removed>>

\* task_manager.del_inactive_user(user_id, eta_delta)
RegSchedule(c, result) ==
    /\ reg[c].pc = "schedule"
    /\ IF result = "launched"
       THEN /\ jobs' = jobs @@
                   (reg[c].uid :> Job(now + del_inactive_user_after))
            /\ reg' = [reg EXCEPT ![c] =
                         [@ EXCEPT !.pc = "done", !.outcome = "ok",
                                   !.scheduled = "ok"]]
       ELSE /\ reg' = [reg EXCEPT ![c] =
                         [@ EXCEPT !.pc = "compensate",
                                   !.scheduled = "failed"]]
            /\ UNCHANGED jobs
    /\ UNCHANGED <<now, codec, bindings, session, users, next_id, mailbox, verify,
                   removed>>

\* except Exception: db.del_user(registration_user.id); raise
\* TaskManagerError
RegCompensate(c) ==
    /\ reg[c].pc = "compensate"
    /\ users' = registration_compensate(users, reg[c].uid)
    /\ removed' = removed \cup Removal(users, reg[c].uid, "compensate")
    /\ reg' = [reg EXCEPT ![c] =
                 [@ EXCEPT !.pc = "done", !.outcome = "TaskManagerError"]]
    /\ UNCHANGED <<now, codec, bindings, session, next_id, mailbox, jobs, verify>>

----------------------------------------------------------------------------
(* AuthController.verify_email                                             *)

\* What a client can put in the path of verify-email: a mailed token, the
\* same with a forged signature or cut short, or a token some call issued.
PresentedTokens ==
    LET mailed == {m.token : m \in mailbox} IN
    mailed
    \cup {[t EXCEPT !.sig = OtherKey] : t \in mailed}
    \cup {[t EXCEPT !.parts = 2] : t \in mailed}
    \cup UNION {verify[c].tokens : c \in VerifyCalls}

\* verify_registration_token(...), then activate_user up to its return
VerifySelect(c, token) ==
    /\ verify[c].pc = "idle"
    /\ \A d \in VerifyCalls : d < c => verify[d].pc # "idle"
    /\ LET d == verify_registration_token(token, now)
           s == IF d.error # "none" THEN "RegistrationTokenInvalid"
                ELSE activate_user_select(users, d.payload.sub)
       IN verify' = [verify EXCEPT ![c] =
            [@ EXCEPT
               !.token = token,
               !.after = {e \in VerifyCalls : verify[e].pc = "done"},
               !.pc = IF s = "selected" THEN "commit" ELSE "done",
               !.uid = IF s = "selected"
                       THEN user_by_username(users, d.payload.sub)
                       ELSE NoId,
               !.outcome = IF s = "selected" THEN "none"
                           ELSE IF s = "ActivateUserError"
                                THEN "UserIsActive"
                           ELSE s]]
    /\ UNCHANGED <<now, codec, bindings, session, users, next_id, mailbox, jobs, reg,
                   removed>>

\* session.commit() of activate_user (the UPDATE of the selected row; a
\* row deleted meanwhile makes the flush fail), then the token pair
VerifyCommit(c) ==
    /\ verify[c].pc = "commit"
    /\ IF verify[c].uid \in DOMAIN users
       THEN /\ users' = [users EXCEPT ![verify[c].uid].is_active = TRUE]
            /\ LET e == {encode(p, json_encoder) :
                            p \in verify_email_tokens(verify[c].uid, now, 0)}
                   failed == \E x \in e : x.error # "none"
               IN verify' = [verify EXCEPT ![c] =
                    [@ EXCEPT
                       !.pc = "done",
                       !.outcome = IF failed THEN "EncodeTokenError"
                                   ELSE "ok",
                       !.email = users[verify[c].uid].email,
                       !.tokens = IF failed THEN {}
                                  ELSE {x.token : x \in e}]]
       ELSE /\ verify' = [verify EXCEPT ![c] =
                 [@ EXCEPT !.pc = "done", !.outcome = "DatabaseError"]]
            /\ UNCHANGED users
    /\ UNCHANGED <<now, codec, bindings, session, next_id, mailbox, jobs, reg,
                   removed>>

----------------------------------------------------------------------------
(* del_inactive_user_task, delivered by the scheduler once the job is due  *)
(* and at most MaxDeliveries times.                                        *)

\* if not await provide_db().is_user_active(user_id)
CleanupFire(id) ==
    /\ id \in DOMAIN jobs
    /\ jobs[id].pc = "scheduled"
    /\ jobs[id].runs < MaxDeliveries
    /\ now >= jobs[id].eta
    /\ LET a == is_user_active(users, id)
       IN jobs' = [jobs EXCEPT ![id] =
            IF a = "False" THEN [@ EXCEPT !.pc = "delete"]
            ELSE [@ EXCEPT !.runs = @ + 1,
                           !.last = IF a = "True" THEN "noop" ELSE a]]
    /\ UNCHANGED <<now, codec, bindings, session, users, next_id, mailbox, reg,
                   verify, removed>>

\* await provide_db().del_user(user_id)
CleanupDelete(id) ==
    /\ id \in DOMAIN jobs
    /\ jobs[id].pc = "delete"
    /\ users' = del_user(users, id)
    /\ removed' = removed \cup Removal(users, id, "cleanup")
    /\ jobs' = [jobs EXCEPT ![id] =
                  [@ EXCEPT !.pc = "scheduled", !.runs = @ + 1,
                            !.last = "deleted"]]
    /\ UNCHANGED <<now, codec, bindings, session, next_id, mailbox, reg, verify>>

----------------------------------------------------------------------------

Next ==
    \/ Tick
    \/ \E c \in RegCalls : \E i \in RegInputs(c) : RegUnique(c, i[1], i[2])
    \/ \E c \in RegCalls, r \in {"sent", "NonExistentEmail", "MailerError"} :
          RegNotify(c, r)
    \/ \E c \in RegCalls : RegCreate(c)
    \/ \E c \in RegCalls, r \in {"launched", "KapustaError"} :
          RegSchedule(c, r)
    \/ \E c \in RegCalls : RegCompensate(c)
    \/ \E c \in VerifyCalls : \E t \in PresentedTokens : VerifySelect(c, t)
    \/ \E c \in VerifyCalls : VerifyCommit(c)
    \/ \E id \in UserIds : CleanupFire(id)
    \/ \E id \in UserIds : CleanupDelete(id)

Spec == Init /\ [][Next]_vars

\* One registration request, with every verify_email call and the cleanup
\* job beside it.  Every awaited call of the handler returns, the clock
\* advances, and the scheduler delivers a due job to the worker.
NextLive ==
    \/ Tick
    \/ RegUnique(1, "alice", "a@x.com")
    \/ \E r \in {"sent", "NonExistentEmail", "MailerError"} : RegNotify(1, r)
    \/ RegCreate(1)
    \/ \E r \in {"launched", "KapustaError"} : RegSchedule(1, r)
    \/ RegCompensate(1)
    \/ \E c \in VerifyCalls : \E t \in PresentedTokens : VerifySelect(c, t)
    \/ \E c \in VerifyCalls : VerifyCommit(c)
    \/ \E id \in UserIds : CleanupFire(id)
    \/ \E id \in UserIds : CleanupDelete(id)

Fairness ==
    /\ WF_vars(Tick)
    /\ WF_vars(\E r \in {"launched", "KapustaError"} : RegSchedule(1, r))
    /\ WF_vars(RegCompensate(1))
    /\ \A id \in UserIds :
          WF_vars(CleanupFire(id)) /\ WF_vars(CleanupDelete(id))

SpecLive == Init /\ [][NextLive]_vars /\ Fairness

InitStore ==
    /\ now = 0
    /\ codec = CodecIdle
    /\ database = "AsyncSQLAlchemyDB"
    /\ json_encoder \in JSONEncoders
    /\ session = SessionIdle
    /\ users \in StoreTables
    /\ next_id = MaxRegs + 1
    /\ mailbox = {}
    /\ jobs = EmptyTable
    /\ reg = [c \in RegCalls |-> RegIdle]
    /\ verify = [c \in VerifyCalls |-> VerifyIdle]
    /\ removed = {}

StoreIds == UserIds \cup {get_id(MaxRegs + 1)}

NextStore ==
    \/ \E u \in Usernames, e \in Emails, a \in BOOLEAN :
          StoreCreateUser(u, e, a)
    \/ \E id \in StoreIds : StoreDelUser(id)
    \/ \E id \in StoreIds, p \in Passwords : StoreChangeUserPassword(id, p)
    \/ \E u \in Usernames : StoreActivateUser(u)
    \/ \E script \in ReadScripts, id \in StoreIds : StoreRead(script, id)
    \/ \E u \in Usernames, e \in Emails : StoreIsUnique(u, e)
    \/ \E u \in Usernames, p \in Passwords : StoreAuthentication(u, p)
    \/ \E id \in StoreIds : StoreGetUser(id)
    \/ \E u \in Usernames : StoreGetUserByUsername(u)
    \/ \E id \in StoreIds : StoreGetUserEmail(id)
    \/ \E id \in StoreIds : StoreIsUserActive(id)
    \/ \E present \in BOOLEAN : StoreRefresh(present)
    \/ StoreVerifyEmail
    \/ \E id \in UserIds : StoreChangePassword(id, "pw2")
    \/ Tick

SpecStore == InitStore /\ [][NextStore]_vars

NextCodec ==
    CodecEncode \/ CodecTamper \/ CodecDecode \/ CodecRefresh \/ Tick

SpecCodec == InitCodec /\ [][NextCodec]_vars

----------------------------------------------------------------------------
(* Claims.                                                                 *)

IsWrongKind ==
    /\ codec.stage = "decoded"
    /\ codec.payload.type # codec.expected

\* C1 (as stated): a token encoded from a payload of one kind, decoded as
\* another kind, always fails with DecodeTokenError proper, never with
\* TokenExpiredError.
C1_WrongKindIsInvalid ==
    IsWrongKind => codec.result.error = "DecodeTokenError"

\* C1 (amended): a token encoded from a payload of one kind, decoded as
\* another kind, is never accepted: it fails with DecodeTokenError proper
\* before its expiry and with TokenExpiredError at or after it.
C1_WrongKindIsRejected ==
    IsWrongKind =>
        codec.result.error = IF codec.payload.exp <= codec.at
                             THEN "TokenExpiredError"
                             ELSE "DecodeTokenError"

C1_Witness ==
    /\ IsWrongKind
    /\ codec.payload.exp > codec.at
    /\ codec.result.error = "DecodeTokenError"

\* C2: every row that verify_email activated (returning a token pair for
\* its id) was activated through a registration token that the mailer sent
\* to that row's own e-mail address.
C2_ActivatedByOwnMail ==
    \A c \in VerifyCalls :
        verify[c].outcome = "ok" =>
            [to |-> verify[c].email, token |-> verify[c].token] \in mailbox

NotifierAndSchedulerAccepted(r) ==
    reg[r].outcome \notin {"EmailNonExists", "MailerError", "TaskManagerError"}

\* C3: of two registration calls for the same username and e-mail that ran
\* concurrently (notifier and scheduler accepting), exactly one succeeded
\* and the other failed with UsernameNotUnique or EmailNotUnique.
C3_ExactlyOneSucceeds ==
    \A r1, r2 \in RegCalls :
        ( /\ r1 \in reg[r2].concurrent
          /\ reg[r1].username = reg[r2].username
          /\ reg[r1].email = reg[r2].email
          /\ reg[r1].pc = "done" /\ reg[r2].pc = "done"
          /\ NotifierAndSchedulerAccepted(r1)
          /\ NotifierAndSchedulerAccepted(r2) )
        => \E w \in {r1, r2} : \E l \in {r1, r2} \ {w} :
              /\ reg[w].outcome = "ok"
              /\ reg[l].outcome \in {"UsernameNotUnique", "EmailNotUnique"}

\* C4: the cleanup job never deletes a row that is active: fired for a
\* user who activated in the interim it leaves the row present.
C4_CleanupSparesActive ==
    \A x \in removed : x.by = "cleanup" => ~x.is_active

\* C5: no run of the cleanup job raises: fired for an id whose row is
\* already deleted or already active it completes as a no-op.
C5_CleanupNeverRaises ==
    \A id \in DOMAIN jobs : jobs[id].last # "ValueError"

Uncontended(r) ==
    /\ reg[r].concurrent = {}
    /\ \A d \in RegCalls : r \notin reg[d].concurrent

\* C6: a registration call that found the username and e-mail unused, that
\* no other call competed with, whose message the notifier accepted and
\* whose job the scheduler accepted, completed without error, having
\* created a row and scheduled a cleanup job for its id.
C6_RegistrationCompletes ==
    \A r \in RegCalls :
        ( /\ reg[r].pc = "done"
          /\ reg[r].outcome \notin {"UsernameNotUnique", "EmailNotUnique"}
          /\ reg[r].notified = "sent"
          /\ reg[r].scheduled # "failed"
          /\ Uncontended(r) )
        => /\ reg[r].outcome = "ok"
           /\ reg[r].uid \in DOMAIN jobs

\* C7: a registration call whose scheduling failed after it created the
\* row has, when it returns, raised TaskManagerError and left no row and
\* no job for the id it created.
C7_SchedulingFailureLeavesNoRow ==
    \A r \in RegCalls :
        (reg[r].scheduled = "failed" /\ reg[r].pc = "done")
        => /\ reg[r].outcome = "TaskManagerError"
           /\ reg[r].uid # NoId
           /\ reg[r].uid \notin DOMAIN users
           /\ reg[r].uid \notin DOMAIN jobs

C7_Witness ==
    \E r \in RegCalls :
        /\ reg[r].scheduled = "failed"
        /\ reg[r].pc = "done"
        /\ reg[r].outcome = "TaskManagerError"
        /\ Cardinality(removed) > 0

\* C8: the compensating delete of registration never removes a row that
\* verify_email has activated.
C8_CompensationSparesActive ==
    \A x \in removed : x.by = "compensate" => ~x.is_active

\* C9: a registration call whose message the notifier refused as sent to a
\* nonexistent recipient has ended with EmailNonExists, has created no row
\* and scheduled no job; a row with its username or e-mail, if any, is
\* another call's.
C9_NonExistentEmailCreatesNothing ==
    \A r \in RegCalls :
        reg[r].notified = "NonExistentEmail"
        => /\ reg[r].pc = "done"
           /\ reg[r].outcome = "EmailNonExists"
           /\ reg[r].uid = NoId
           /\ reg[r].scheduled = "none"
           /\ \A id \in DOMAIN users :
                 (users[id].username = reg[r].username
                  \/ users[id].email = reg[r].email)
                 => \E d \in RegCalls \ {r} : reg[d].uid = id

C9_Witness ==
    \E r \in RegCalls :
        /\ reg[r].notified = "NonExistentEmail"
        /\ reg[r].outcome = "EmailNonExists"
        /\ \A id \in DOMAIN users : users[id].username # reg[r].username

IsTokenPair(tokens, id) ==
    /\ Cardinality(tokens) = 2
    /\ \E a, b \in tokens :
          /\ a.claims.type = "access" /\ a.claims.sub = id
          /\ b.claims.type = "refresh" /\ b.claims.sub = id

BeforeExpiry(p, t) == t < p.exp + p.frac

\* C11: encode succeeds on every well-typed payload, and decoding the
\* encoded token as the payload's own kind before the payload's expiry
\* returns a payload equal to the one encoded.
C11_RoundTrip ==
    /\ codec.stage # "EncodeTokenError"
    /\ ( /\ codec.stage = "decoded"
         /\ codec.expected = codec.payload.type
         /\ BeforeExpiry(codec.payload, codec.at) )
       => /\ codec.result.error = "none"
          /\ codec.result.payload = codec.payload

C20_RefreshRotates ==
    (codec.stage = "refreshed" /\ codec.response = "ok")
    => /\ codec.payload.type = "refresh"
       /\ IsTokenPair(codec.issued, codec.payload.sub)

C20_Witness ==
    /\ codec.stage = "refreshed"
    /\ codec.response = "ok"
    /\ Cardinality(codec.issued) = 2

RejectedInsert(c) ==
    /\ reg[c].pc = "create"
    /\ reg'[c].pc # "create"
    /\ create_user_required(database) \subseteq registration_create_user_kwargs
    /\ violated_constraints(users, reg[c].username, reg[c].email) # {}

\* C13: a registration call whose insert the store rejects for a username
\* or e-mail taken meanwhile ends with UsernameNotUnique or EmailNotUnique
\* and runs no further step: no job is scheduled, no row deleted or changed.
C13_RaceLostInsertIsMapped ==
    [][\A c \in RegCalls :
          RejectedInsert(c)
          => /\ reg'[c].pc = "done"
             /\ reg'[c].outcome \in {"UsernameNotUnique", "EmailNotUnique"}
             /\ reg'[c].uid = NoId
             /\ users' = users /\ jobs' = jobs /\ removed' = removed]_vars

\* C14: a run of the cleanup job that finds the row of its user present and
\* inactive goes on to delete, and when it ends the row is gone.
C14_CleanupDeletesInactive ==
    [][\A id \in DOMAIN jobs :
          /\ ( /\ jobs[id].pc = "scheduled"
               /\ jobs'[id] # jobs[id]
               /\ id \in DOMAIN users
               /\ ~users[id].is_active )
             => jobs'[id].pc = "delete"
          /\ (jobs[id].pc = "delete" /\ jobs'[id].pc # "delete")
             => /\ id \notin DOMAIN users'
                /\ jobs'[id].last = "deleted"]_vars

C14_Witness ==
    \E id \in DOMAIN jobs :
        /\ jobs[id].last = "deleted"
        /\ id \notin DOMAIN users
        /\ [id |-> id, by |-> "cleanup", is_active |-> FALSE] \in removed

\* C15: a row is created inactive, becomes active only in the commit of a
\* verify_email call that selected it, and once active is never inactive
\* again while it exists.
C15_Lifecycle ==
    [][\A id \in UserIds :
          /\ (id \notin DOMAIN users /\ id \in DOMAIN users')
             => ~users'[id].is_active
          /\ (id \in DOMAIN users /\ id \in DOMAIN users')
             => /\ users[id].is_active => users'[id].is_active
                /\ (~users[id].is_active /\ users'[id].is_active)
                   => \E c \in VerifyCalls :
                         /\ verify[c].pc = "commit"
                         /\ verify[c].uid = id
                         /\ verify'[c].pc = "done"]_vars

C15_Witness ==
    \E id \in DOMAIN users, c \in VerifyCalls :
        /\ users[id].is_active
        /\ verify[c].uid = id
        /\ verify[c].outcome = "ok"

\* C16: with the clock advancing, the handler's awaited calls returning
\* and every due job delivered to the worker, a row that is inactive is
\* eventually deleted or activated: no inactive row stays forever.
C16_InactiveIsSwept ==
    \A id \in UserIds :
        (id \in DOMAIN users /\ ~users[id].is_active)
            ~> (id \notin DOMAIN users \/ users[id].is_active)

C16_Witness ==
    \E x \in removed :
        /\ x.by = "cleanup"
        /\ ~x.is_active
        /\ x.id \notin DOMAIN users

\* C17: a verify_email call given a token that is expired, forged, cut
\* short or of another kind ends with RegistrationTokenInvalid, issues no
\* tokens and leaves the store as it was.
C17_BadTokenIsRejected ==
    [][\A c \in VerifyCalls :
          ( /\ verify[c].pc = "idle"
            /\ verify'[c].pc # "idle"
            /\ decode(verify'[c].token, "registration", now).error # "none" )
          => /\ verify'[c].pc = "done"
             /\ verify'[c].outcome = "RegistrationTokenInvalid"
             /\ verify'[c].tokens = {}
             /\ users' = users]_vars

C17_Witness ==
    \E c \in VerifyCalls :
        /\ verify[c].outcome = "RegistrationTokenInvalid"
        /\ verify[c].token.sig = OtherKey
        /\ \E id \in DOMAIN users : ~users[id].is_active

\* C18: a read-only session whose code attempted a mutation has failed
\* with DatabaseWriteError and has committed nothing: the store is as it
\* was before the session.
C18_ReadSessionRefusesWrites ==
    (session.stage = "closed" /\ session.mode = "read" /\ session.mutation)
    => /\ session.error = "DatabaseWriteError"
       /\ users = session.before

\* C19: a read-write store operation (create_user, del_user,
\* change_user_password, activate_user) that succeeded has committed all
\* of its changes, and one that failed has left the store exactly as it
\* was before the call.
C19_WriteSessionIsAtomic ==
    (session.stage = "closed" /\ session.mode = "write")
    => IF session.error = "none"
       THEN users = session.pending
       ELSE users = session.before

C19_Witness ==
    /\ session.stage = "closed"
    /\ session.mode = "write"
    /\ session.error \in {"UniqueUsernameError", "UniqueEmailError"}
    /\ session.pending # session.before
    /\ users = session.before

\* C21: the refresh token of a successful refresh carries the lifetime
\* refresh_token_exp, and so expires strictly later than the access token
\* issued with it.
C21_RefreshOutlivesAccess ==
    (codec.stage = "refreshed" /\ codec.response = "ok")
    => \A a, r \in codec.issued :
          (a.claims.type = "access" /\ r.claims.type = "refresh")
          => /\ r.claims.exp = codec.at + refresh_token_exp
             /\ r.claims.exp > a.claims.exp

\* The token with its signature forged, and the token cut short.
Spoiled(token) ==
    {[token EXCEPT !.sig = OtherKey], [token EXCEPT !.parts = 2]}

\* C22 (as stated): at the same clock and for the same expected kind,
\* decode reports the same error for a token of the wrong kind as for that
\* token with a bad signature or a malformed structure, whatever the
\* token's expiry.
C22_FailuresAreIndistinguishable ==
    IsWrongKind =>
        \A bad \in Spoiled(codec.token) :
            decode(bad, codec.expected, codec.at).error = codec.result.error

\* C22 (amended): at the same clock and for the same expected kind, decode
\* of a token of the wrong kind that has not expired reports the same
\* error, DecodeTokenError, as for that token with a bad signature or a
\* malformed structure.
C22_UnexpiredFailuresAreIndistinguishable ==
    (IsWrongKind /\ codec.at < codec.payload.exp) =>
        /\ codec.result.error = "DecodeTokenError"
        /\ \A bad \in Spoiled(codec.token) :
              decode(bad, codec.expected, codec.at).error = codec.result.error

C22_Witness ==
    /\ IsWrongKind
    /\ codec.at < codec.payload.exp
    /\ codec.payload.type = "access"
    /\ codec.expected = "refresh"
    /\ \A bad \in Spoiled(codec.token) :
          decode(bad, "refresh", codec.at).error = "DecodeTokenError"

\* The error kinds verify_email is specified to return.
VerifyEmailErrors == {"UserIsActive", "RegistrationTokenInvalid", "UserNotFound"}

\* C23: a verify_email call given a valid, unexpired registration token
\* whose username has no row in the store ends with one of the enumerated
\* error kinds, not with an unhandled failure.
C23_MissingUserIsEnumerated ==
    [][\A c \in VerifyCalls :
          LET d == decode(verify'[c].token, "registration", now) IN
          ( /\ verify[c].pc = "idle"
            /\ verify'[c].pc # "idle"
            /\ d.error = "none"
            /\ user_by_username(users, d.payload.sub) = NoId )
          => /\ verify'[c].pc = "done"
             /\ verify'[c].outcome \in VerifyEmailErrors]_vars

NoRegistrationInProgress ==
    \A c \in RegCalls : reg[c].pc \in {"idle", "done"}

\* The scheduler accepted a job for id and no run of it has completed.
JobPending(id) ==
    /\ id \in DOMAIN jobs
    /\ jobs[id].pc = "delete" \/ jobs[id].runs = 0

\* C24: whenever no registration call is in progress, every inactive row
\* has a cleanup job for its id that the scheduler accepted and that has
\* not yet completed.
C24_NoOrphanedInactive ==
    NoRegistrationInProgress
    => \A id \in DOMAIN users : ~users[id].is_active => JobPending(id)

C24_Witness ==
    /\ NoRegistrationInProgress
    /\ \E c \in RegCalls : reg[c].scheduled = "failed"
    /\ \E id \in DOMAIN users : ~users[id].is_active /\ JobPending(id)

Overlapping(c1, c2) ==
    /\ c1 # c2
    /\ c1 \notin verify[c2].after
    /\ c2 \notin verify[c1].after

\* C27: of two overlapping verify_email calls given the same valid
\* registration token, at most one activates the user and returns a token
\* pair, and the other fails with UserIsActive.
C27_OneOfTwoActivates ==
    \A c1, c2 \in VerifyCalls :
        ( /\ Overlapping(c1, c2)
          /\ verify[c1].token = verify[c2].token
          /\ verify[c1].pc = "done" /\ verify[c2].pc = "done"
          /\ verify[c1].outcome = "ok"
          /\ verify[c2].outcome # "RegistrationTokenInvalid" )
        => verify[c2].outcome = "UserIsActive"

\* C28: in a registration call the uniqueness check comes first and only
\* its success leads to the notification, only an accepted notification
\* leads to the creation of the row, and only the creation to the
\* scheduling; a call whose check failed has sent nothing, and a call
\* whose notification failed has written no row and scheduled no job.
C28_SagaOrder ==
    [][/\ \A c \in RegCalls :
            /\ (reg[c].pc = "idle" /\ reg'[c].pc # "idle")
               => (reg'[c].pc = "notify"
                     <=> is_user_username_email_unique(
                            users, reg'[c].username, reg'[c].email) = "True")
            /\ reg'[c].pc = "notify" => reg[c].pc \in {"idle", "notify"}
            /\ reg'[c].notified # reg[c].notified => reg[c].pc = "notify"
            /\ reg'[c].pc = "create"
               => reg'[c].notified = "sent" /\ reg'[c].uid = NoId
            /\ reg'[c].uid # reg[c].uid
               => reg[c].pc = "create" /\ reg[c].notified = "sent"
            /\ reg'[c].scheduled # reg[c].scheduled
               => reg[c].pc = "schedule" /\ reg[c].uid # NoId
            /\ reg'[c].outcome \in {"UsernameNotUnique", "EmailNotUnique"}
               => /\ reg'[c].notified = "none"
                  /\ reg'[c].uid = NoId /\ reg'[c].scheduled = "none"
            /\ reg'[c].notified \in {"NonExistentEmail", "MailerError"}
               => /\ reg'[c].pc = "done"
                  /\ reg'[c].uid = NoId /\ reg'[c].scheduled = "none"
       /\ mailbox' # mailbox
          => \E c \in RegCalls : reg[c].pc = "notify" /\ reg'[c].pc = "create"
       /\ DOMAIN users' \ DOMAIN users # {}
          => \E c \in RegCalls :
                /\ reg[c].pc = "create" /\ reg'[c].pc = "schedule"
                /\ DOMAIN users' \ DOMAIN users = {reg'[c].uid}
       /\ jobs' # jobs /\ DOMAIN jobs' # DOMAIN jobs
          => \E c \in RegCalls :
                /\ reg[c].pc = "schedule" /\ reg'[c].pc = "done"
                /\ DOMAIN jobs' \ DOMAIN jobs = {reg[c].uid}]_vars

C28_Witness ==
    \E c, d \in RegCalls :
        /\ reg[c].outcome = "ok"
        /\ reg[c].uid \in DOMAIN jobs
        /\ reg[d].notified = "MailerError"
        /\ reg[d].uid = NoId

\* C29: no two rows of the store share a username, and no two share an
\* e-mail address.
C29_UniqueUsernameAndEmail ==
    \A i, j \in DOMAIN users :
        i # j => /\ users[i].username # users[j].username
                 /\ users[i].email # users[j].email

C29_Witness ==
    \E c \in RegCalls : \E id \in DOMAIN users :
        /\ reg[c].outcome \in {"UniqueUsernameError", "UniqueEmailError"}
        /\ reg[c].uid = NoId
        /\ users[id].username = reg[c].username \/ users[id].email = reg[c].email

\* The ids of the active rows with this username and password.
Credentialed(table, username, password) ==
    {id \in DOMAIN table :
        /\ table[id].username = username
        /\ table[id].is_active
        /\ table[id].password = pwd_context_hash(password)}

\* C25: authentication returns an access/refresh pair for id u exactly
\* when the store holds an active row with the given username, id u and a
\* matching password; otherwise it fails with InvalidCredentials and
\* issues no tokens; in both cases it leaves the store unchanged.
C25_AuthenticationIffCredentials ==
    (session.stage = "closed" /\ session.op = "authentication")
    => LET ids == Credentialed(session.before, session.args[1],
                               session.args[2])
       IN /\ users = session.before
          /\ IF ids # {}
             THEN /\ session.error = "ok"
                  /\ \E u \in ids : IsTokenPair(session.issued, u)
             ELSE /\ session.error = "InvalidCredentials"
                  /\ session.issued = {}

IsUniqueCall ==
    /\ session.stage = "closed"
    /\ session.op = "is_user_username_email_unique"

\* C30 (as stated): is_user_username_email_unique returns True exactly
\* when no row has the username and none has the e-mail; it raises
\* UniqueUsernameError whenever some row holds the username, and
\* UniqueEmailError only when the e-mail alone is taken.
C30_UsernameTakesPrecedence ==
    IsUniqueCall
    => LET t == session.before
           username == \E i \in DOMAIN t : t[i].username = session.args[1]
           email == \E i \in DOMAIN t : t[i].email = session.args[2]
       IN session.error = IF ~username /\ ~email THEN "True"
                          ELSE IF username THEN "UniqueUsernameError"
                          ELSE "UniqueEmailError"

\* C30 (amended): is_user_username_email_unique returns True exactly when
\* no row has the username and none has the e-mail; it raises
\* UniqueUsernameError when some row holds the username with another
\* e-mail, and UniqueEmailError otherwise, that is when every row that
\* holds the username, if any, holds the e-mail as well.
C30_UsernameOfAnotherEmailTakesPrecedence ==
    IsUniqueCall
    => LET t == session.before
           username == \E i \in DOMAIN t : t[i].username = session.args[1]
           email == \E i \in DOMAIN t : t[i].email = session.args[2]
           other == \E i \in DOMAIN t : /\ t[i].username = session.args[1]
                                        /\ t[i].email # session.args[2]
       IN session.error = IF ~username /\ ~email THEN "True"
                          ELSE IF other THEN "UniqueUsernameError"
                          ELSE "UniqueEmailError"

C30_Witness ==
    /\ IsUniqueCall
    /\ session.error = "UniqueEmailError"
    /\ \E i \in DOMAIN session.before :
          /\ session.before[i].username = session.args[1]
          /\ session.before[i].email = session.args[2]

RefreshedAgain ==
    /\ codec.exchanges > 0
    /\ codec'.refreshes = codec.refreshes + 1
    /\ codec'.present

C35_RefreshFailuresAreDistinct ==
    codec.stage = "refreshed"
    => /\ ~codec.present => codec.response = "RefreshTokenHeaderMissing"
       /\ (codec.present /\ codec.result.error = "TokenExpiredError")
          => codec.response = "RefreshTokenExpired"
       /\ (codec.present /\ codec.result.error = "DecodeTokenError")
          => codec.response = "RefreshTokenInvalid"
       /\ codec.response \in {"RefreshTokenHeaderMissing",
                              "RefreshTokenExpired", "RefreshTokenInvalid"}
          => codec.issued = {}

C35_Witness ==
    /\ codec.stage = "refreshed"
    /\ codec.present
    /\ codec.payload.type = "refresh"
    /\ codec.token.sig = JWT_KEY
    /\ codec.token.parts = 3
    /\ codec.response = "RefreshTokenExpired"
    /\ codec.issued = {}

OwnToken(c, v) ==
    /\ reg[c].uid # NoId
    /\ reg[c].uid \in DOMAIN jobs
    /\ verify'[v].token = reg[c].token
    /\ verify'[v].uid = reg[c].uid

IsChangeUserPassword ==
    /\ session.stage = "closed"
    /\ session.op = "change_user_password"

\* C36: a successful change_user_password(id, new_password) changes only
\* the password of the row with that id, leaving its username, e-mail and
\* active flag and every other row as they were; when no row has the id
\* it fails with UserNotFoundError and changes nothing.
C36_OnlyThePasswordChanges ==
    IsChangeUserPassword
    => LET id == session.args[1]
           t == session.before
       IN IF id \in DOMAIN t
          THEN /\ session.error = "none"
               /\ DOMAIN users = DOMAIN t
               /\ users[id].password = pwd_context_hash(session.args[2])
               /\ users[id].username = t[id].username
               /\ users[id].email = t[id].email
               /\ users[id].is_active = t[id].is_active
               /\ \A i \in DOMAIN t \ {id} : users[i] = t[i]
          ELSE /\ session.error = "UserNotFoundError"
               /\ users = t

C36_Witness ==
    /\ IsChangeUserPassword
    /\ session.error = "none"
    /\ Cardinality(DOMAIN users) = 2
    /\ users # session.before

\* The read-mode operations of the store and the handlers that use only
\* them.
ReadOperations ==
    {"get_user", "get_user_by_username", "get_user_email",
     "is_user_username_email_unique", "is_user_active", "authentication",
     "refresh"}

\* C34: get_user, get_user_by_username, get_user_email,
\* is_user_username_email_unique, is_user_active and
\* verify_username_password (through authentication), and the handler
\* refresh, whether they succeed or fail, leave every row of the store as
\* it was.
C34_ReadOperationsPreserveTheStore ==
    (session.stage = "closed" /\ session.op \in ReadOperations)
    => users = session.before

C34_Witness ==
    /\ session.stage = "closed"
    /\ session.op = "get_user_email"
    /\ session.error = "UserNotFoundError"
    /\ users = session.before
    /\ users # EmptyTable

IsChangePassword ==
    /\ session.stage = "closed"
    /\ session.op = "change_password"

\* The token decodes as a change-password token at the time of the call.
DecodesAsChangePassword(token, t) ==
    /\ token.parts = 3
    /\ token.sig = JWT_KEY
    /\ token.claims.type = "change-password"
    /\ t < token.claims.exp

\* C31: change_password changes a password only when the token decodes as
\* an unexpired change-password token whose subject is the caller's, and
\* then only the caller's; when the token does not decode it fails with
\* ChangePasswordTokenInvalid, when the subjects differ with
\* TokensSubjectNotEqual, and in both cases the store is unchanged.
C31_ChangePasswordIsGuarded ==
    IsChangePassword
    => LET sub == session.args[1]
           token == session.args[2]
           ok == DecodesAsChangePassword(token, session.at)
       IN /\ users # session.before
             => /\ ok /\ token.claims.sub = sub
                /\ BeforeExpiry(token.claims, session.at)
                /\ \A i \in DOMAIN users \ {sub} : users[i] = session.before[i]
          /\ ~ok => /\ session.error = "ChangePasswordTokenInvalid"
                    /\ users = session.before
          /\ (ok /\ token.claims.sub # sub)
             => /\ session.error = "TokensSubjectNotEqual"
                /\ users = session.before

C31_Witness ==
    /\ IsChangePassword
    /\ session.error = "TokensSubjectNotEqual"
    /\ session.args[1] \in DOMAIN users
    /\ session.args[2].claims.sub \in DOMAIN users

IsLoginToken(token) == token.claims.type \in {"access", "refresh"}

\* C32: every access or refresh token issued has as subject the id of a
\* row that is active, or was active at some earlier moment, when the
\* token is issued: authentication issues for an active row, verify_email
\* for the row it has activated, refresh for the subject of a refresh
\* token issued before.
C32_TokensAreForActivatedUsers ==
    [][\A token \in session'.tokens \ session.tokens :
          IsLoginToken(token)
          => token.claims.sub \in
                session.active \cup ActiveIds(users) \cup ActiveIds(users')]_vars

C32_Witness ==
    /\ session.stage = "closed"
    /\ session.op = "refresh"
    /\ session.error = "ok"
    /\ session.at > 0
    /\ \E token \in session.issued :
          /\ token.claims.type = "refresh"
          /\ token.claims.sub \in session.active

====
